---- MODULE Spec2Model ----
(***************************************************************************)
(* A model of pymclevel/leveldbpocket.py: the little-endian NBT scope,     *)
(* the PocketLeveldbDatabase store facade, the PocketLeveldbWorld chunk    *)
(* cache, enumeration memo, delete and save pipeline, and the              *)
(* PocketLeveldbChunk terrain codec.                                       *)
(*                                                                         *)
(* Scale.  The terrain record of the program is 83,200 bytes:              *)
(* 32768 + 3 * 16384 + 256 + 1024.  The model keeps the layout and the     *)
(* codec and scales the array sizes down to BlocksLen, PackedLen,          *)
(* DirtyLen and GrassLen bytes; TerrainLen is their sum as in the program. *)
(* Chunk coordinates range over (0..MaxCx) x (0..MaxCz).                   *)
(***************************************************************************)
EXTENDS Integers, Sequences, FiniteSets, TLC

\* ---------------------------------------------------------------- bounds
MaxCx == 1
MaxCz == 0
BlocksLen == 1
PackedLen == 1
DirtyLen == 1
GrassLen == 1
MaxNest == 2
MaxAppend == 1
MaxBatch == 1
MaxPayload == 2
MaxLive == 2
MaxTags == 2
MaxCompounds == 2
MaxPacked == 2

Coords == (0 .. MaxCx) \X (0 .. MaxCz)

\* len(terrain) of a well-formed record (83200 in the program).
TerrainLen == BlocksLen + 3 * PackedLen + DirtyLen + GrassLen

\* ------------------------------------------------------------ arithmetic
RECURSIVE BitOrN(_, _, _)
BitOrN(a, b, bits) ==
    IF bits = 0 THEN 0
    ELSE (IF (a % 2 = 1) \/ (b % 2 = 1) THEN 1 ELSE 0)
         + 2 * BitOrN(a \div 2, b \div 2, bits - 1)

\* numpy uint8 |
BitOr(a, b) == BitOrN(a, b, 8)

\* numpy uint8 <<= 4
Shl4(a) == (a * 16) % 256

Seq4LE(n) == << n % 256, (n \div 256) % 256, (n \div 65536) % 256, (n \div 16777216) % 256 >>

\* struct.pack('<i', n): 32-bit two's complement, little-endian.  A negative
\* n is n + 2^31 with the top bit of the last byte set.
PackI(n) ==
    IF n >= 0 THEN Seq4LE(n)
    ELSE LET m == Seq4LE((n + 2147483647) + 1)
         IN  << m[1], m[2], m[3], m[4] + 128 >>

\* struct.unpack('<i', raw)[0]
UnpackI(raw) ==
    LET u == raw[1] + 256 * raw[2] + 65536 * raw[3] + 16777216 * (raw[4] % 128)
    IN  IF raw[4] >= 128 THEN (u - 2147483647) - 1 ELSE u

\* The tag characters "0", "1", "2" as bytes.
TagTerrain == 48
TagTileEntities == 49
TagEntities == 50

\* key = struct.pack('<i', cx) + struct.pack('<i', cz) + tag
Key(c, tag) == PackI(c[1]) \o PackI(c[2]) \o << tag >>

\* leveldb's bytewise key order.
RECURSIVE KeyLess(_, _)
KeyLess(a, b) ==
    IF b = << >> THEN FALSE
    ELSE IF a = << >> THEN TRUE
    ELSE IF a[1] # b[1] THEN a[1] < b[1]
    ELSE KeyLess(Tail(a), Tail(b))

\* ----------------------------------------------------------------- state
VARIABLES
    db,              \* the leveldb store: a function from the present keys to their values
    loadedChunks,    \* PocketLeveldbWorld._loadedChunks: (cx, cz) -> chunk
    allChunks,       \* PocketLeveldbWorld._allChunks: [some |-> FALSE] or a list of (cx, cz)
    classList,       \* the class-level TAG_List shared by PocketLeveldbChunk._Entities/_TileEntities
    nbt,             \* the nbt module's endianness settings
    scopes,          \* the littleEndianNBT scopes the host has open, innermost last
    gen,             \* the suspended saveInPlaceGen generator, if any
    hostBatch,       \* a WriteBatch the host passes to deleteChunk
    appended,        \* number of compounds the host has appended
    ret,             \* what the last operation returned or raised
    holdDatabaseOpen, \* PocketLeveldbDatabase.holdDatabaseOpen
    worldDb,         \* PocketLeveldbDatabase._world_db is not None
    liveHandles,     \* number of leveldb_mcpe.DB objects of the world that are alive
    yielded,         \* the handle the last operation's world_db() yielded: "none", "held", "fresh"
    levelDat,        \* the bytes of <filename>/level.dat
    world,           \* "none" before PocketLeveldbWorld(filename) has returned, then "open"
    root_tag,        \* PocketLeveldbWorld.root_tag
    probe,           \* the argument of a codec function under test
    otherWorld       \* a second PocketLeveldbWorld of the process, on another directory

vars == << db, loadedChunks, allChunks, classList, nbt, scopes, gen, hostBatch, appended, ret,
           holdDatabaseOpen, worldDb, liveHandles, yielded, levelDat, world, root_tag, probe,
           otherWorld >>

\* ------------------------------------------------------ optional values
None == [some |-> FALSE, v |-> << >>]
Some(x) == [some |-> TRUE, v |-> x]

\* dict / store helpers: a function whose DOMAIN is the set of present keys.
DictGet(d, k) == IF k \in DOMAIN d THEN Some(d[k]) ELSE None
DictPut(d, k, x) == [j \in (DOMAIN d) \cup {k} |-> IF j = k THEN x ELSE d[j]]
DictDel(d, k) == [j \in (DOMAIN d) \ {k} |-> d[j]]
EmptyDict == [j \in {} |-> 0]

\* ------------------------------------------------------ littleEndianNBT
\* The nbt module's settings before any scope has run.
NbtDefault == [fmt |-> "big", write_string |-> "big", byte_array |-> "big"]

\* The assignments before the yield.
LittleEndianEnter(n) == [fmt |-> "little", write_string |-> "little", byte_array |-> "little"]

\* The assignments after the yield; reset_byte_array_write_value packs "<I".
LittleEndianExit(n) == [fmt |-> "big", write_string |-> "big", byte_array |-> "little"]

\* An exception thrown into the generator at the yield: nothing after the yield runs.
LittleEndianRaise(n) == n

\* ------------------------------------------------------------ NBT values
TAG_Int(n) == [type |-> "Int", n |-> n, s |-> ""]
TAG_String(s) == [type |-> "String", n |-> 0, s |-> s]

\* entity.PocketEntity.entityList: external string id -> on-disk integer id.
entityList == [s \in {"Zombie", "Chicken"} |-> IF s = "Zombie" THEN 32 ELSE 10]

\* invertEntities = {v: k for k, v in entityList.items()}
invertEntities ==
    [n \in {entityList[k] : k \in DOMAIN entityList} |->
        CHOOSE k \in DOMAIN entityList : entityList[k] = n]

\* A compound in memory: its "id" tag, and whether ent.save() can emit it
\* (a tag holding a value its format cannot pack makes save() raise).
Compound(id, emits) == [id |-> id, emits |-> emits]

\* ent.save(compressed=False): the emitted compound.
SaveCompound(ent) == [id |-> ent.id]

\* loadNBTCompoundList.load: one compound per emitted compound of the data.
LoadCompounds(data) == [i \in 1 .. Len(data) |-> Compound(data[i].id, TRUE)]

\* ------------------------------------------------------- terrain codec
\* unpackChunkData: even index -> low nibble, odd index -> high nibble
\* (indices 0-based in the program, 1-based here).
UnpackData(packed) ==
    [i \in 1 .. 2 * Len(packed) |->
        IF i % 2 = 1 THEN packed[(i + 1) \div 2] % 16
        ELSE packed[i \div 2] \div 16]

\* packData with the nibbles the wrong way round: even index to the high nibble.
PackDataSwapped(dataArray) ==
    [k \in 1 .. (Len(dataArray) \div 2) |->
        BitOr(Shl4(dataArray[2 * k - 1]), dataArray[2 * k])]

\* packData without data[..., 1] |= data[..., 0].
PackDataHighOnly(dataArray) ==
    [k \in 1 .. (Len(dataArray) \div 2) |-> Shl4(dataArray[2 * k])]

\* savedData.packData: data[..., 1] <<= 4; data[..., 1] |= data[..., 0] on a copy.
PackData(dataArray) ==
    [k \in 1 .. (Len(dataArray) \div 2) |->
        BitOr(Shl4(dataArray[2 * k]), dataArray[2 * k - 1])]

\* The argument of packData after the call: numpy.array(dataArray) copies, the
\* shifts work on the copy.
PackDataLeaves(dataArray) == dataArray

OffData == BlocksLen
OffSkyLight == OffData + PackedLen
OffBlockLight == OffSkyLight + PackedLen
OffDirty == OffBlockLight + PackedLen
OffGrass == OffDirty + DirtyLen

Slice(t, off, n) == SubSeq(t, off + 1, off + n)

\* The entity ids of a loaded entity list: int -> string through invertEntities.
EntitiesKnown(ents) ==
    \A i \in 1 .. Len(ents) :
        ents[i].id.type = "Int" /\ ents[i].id.n \in DOMAIN invertEntities

InvertIds(ents) ==
    [i \in 1 .. Len(ents) |->
        [ents[i] EXCEPT !.id = TAG_String(invertEntities[ents[i].id.n])]]

\* PocketLeveldbChunk.__init__(cx, cz, data, world), given that it does not raise.
\* hasTileEntities / hasEntities: the instance has its own list; otherwise
\* the attribute resolves to the class-level TAG_List.
ChunkInit(data) ==
    [ Blocks |-> Slice(data.terrain, 0, BlocksLen),
      Data |-> UnpackData(Slice(data.terrain, OffData, PackedLen)),
      SkyLight |-> UnpackData(Slice(data.terrain, OffSkyLight, PackedLen)),
      BlockLight |-> UnpackData(Slice(data.terrain, OffBlockLight, PackedLen)),
      DirtyColumns |-> Slice(data.terrain, OffDirty, DirtyLen),
      GrassColors |-> Slice(data.terrain, OffGrass, GrassLen),
      hasTileEntities |-> data.tile_entities.some,
      TileEntities |-> IF data.tile_entities.some
                       THEN LoadCompounds(data.tile_entities.v) ELSE << >>,
      hasEntities |-> data.entities.some,
      Entities |-> IF data.entities.some
                   THEN InvertIds(LoadCompounds(data.entities.v)) ELSE << >>,
      dirty |-> FALSE ]

\* __init__ raises KeyError when an entity's integer id is not in invertEntities.
ChunkInitRaises(data) ==
    data.entities.some /\ ~EntitiesKnown(LoadCompounds(data.entities.v))

\* loadNBTCompoundList runs under littleEndianNBT for each key that is present.
NbtAfterChunkInit(n, data) ==
    IF data.tile_entities.some \/ data.entities.some
    THEN LittleEndianExit(LittleEndianEnter(n)) ELSE n

\* The Entities / TileEntities properties.
EntitiesOf(chunk, cls) == IF chunk.hasEntities THEN chunk.Entities ELSE cls
TileEntitiesOf(chunk, cls) == IF chunk.hasTileEntities THEN chunk.TileEntities ELSE cls

\* The terrain arrays of a chunk, as get_chunk's caller sees them.
Arrays(chunk) ==
    << chunk.Blocks, chunk.Data, chunk.SkyLight, chunk.BlockLight,
       chunk.DirtyColumns, chunk.GrassColors >>

\* ----------------------------------------------------------- savedData
AllDirty(cols) == [i \in 1 .. Len(cols) |-> 255]

\* entity.PocketEntity.entityList[v] raises KeyError.
LookupRaises(ent) == ent.id.type # "String" \/ ent.id.s \notin DOMAIN entityList

\* ent.save(compressed=False) raises.
EmitRaises(ent) == ~ent.emits

EntityRaises(ent) == LookupRaises(ent) \/ EmitRaises(ent)

\* The index of the first entity at which the entity loop raises, or 0.
FirstRaising(ents) ==
    IF \E i \in 1 .. Len(ents) : EntityRaises(ents[i])
    THEN CHOOSE i \in 1 .. Len(ents) :
            EntityRaises(ents[i]) /\ \A j \in 1 .. (i - 1) : ~EntityRaises(ents[j])
    ELSE 0

\* self.DirtyColumns[:] = 255 whatever the dirty flag.
MarkDirtyColumnsAlways(chunk) == [chunk EXCEPT !.DirtyColumns = AllDirty(chunk.DirtyColumns)]

\* if self.dirty: self.DirtyColumns[:] = 255
MarkDirtyColumns(chunk) ==
    IF chunk.dirty THEN [chunk EXCEPT !.DirtyColumns = AllDirty(chunk.DirtyColumns)]
    ELSE chunk

\* terrain = ''.join([Blocks, packData(Data), packData(SkyLight), packData(BlockLight),
\*                    DirtyColumns, GrassColors])
TerrainOf(chunk) ==
    chunk.Blocks \o PackData(chunk.Data) \o PackData(chunk.SkyLight)
        \o PackData(chunk.BlockLight) \o chunk.DirtyColumns \o chunk.GrassColors

\* The entity loop's emitted data: each id swapped to its integer for the emit.
EmitEntities(ents) ==
    [i \in 1 .. Len(ents) |->
        SaveCompound([ents[i] EXCEPT !.id = TAG_Int(entityList[ents[i].id.s])])]

EmitTileEntities(tiles) == [i \in 1 .. Len(tiles) |-> SaveCompound(tiles[i])]

\* The entity list after the loop stopped at entity i: a failed emit leaves
\* ent["id"] the TAG_Int; a failed lookup leaves it as it was.
EntitiesAfterRaise(ents, i) ==
    IF LookupRaises(ents[i]) THEN ents
    ELSE [ents EXCEPT ![i].id = TAG_Int(entityList[ents[i].id.s])]

\* The entity list written back to where the Entities property reads it.
WithEntities(chunk, cls, ents) ==
    IF chunk.hasEntities THEN [chunk |-> [chunk EXCEPT !.Entities = ents], cls |-> cls]
    ELSE [chunk |-> chunk, cls |-> ents]

\* PocketLeveldbChunk.savedData(): what it returns or raises, the chunk and
\* the class-level list afterwards, and the nbt settings afterwards.
savedData(chunk, cls, n) ==
    LET marked == MarkDirtyColumns(chunk)
        tiles == TileEntitiesOf(marked, cls)
        ents == EntitiesOf(marked, cls)
        inside == LittleEndianEnter(n)
        bad == FirstRaising(ents)
    IN  IF \E i \in 1 .. Len(tiles) : EmitRaises(tiles[i])
        THEN [raised |-> "struct.error", chunk |-> marked, cls |-> cls,
              nbt |-> LittleEndianRaise(inside), data |-> << >>]
        ELSE IF bad # 0
        THEN LET w == WithEntities(marked, cls, EntitiesAfterRaise(ents, bad))
             IN  [raised |-> IF LookupRaises(ents[bad]) THEN "KeyError" ELSE "struct.error",
                  chunk |-> w.chunk, cls |-> w.cls,
                  nbt |-> LittleEndianRaise(inside), data |-> << >>]
        ELSE [raised |-> "", chunk |-> marked, cls |-> cls,
              nbt |-> LittleEndianExit(inside),
              data |-> << TerrainOf(marked), EmitTileEntities(tiles), EmitEntities(ents) >>]

\* ------------------------------------------------ PocketLeveldbDatabase
Put(key, value) == [op |-> "Put", key |-> key, value |-> value]
Delete(key) == [op |-> "Delete", key |-> key, value |-> << >>]

\* db.Write(wop, batch): the batch's operations in order.
RECURSIVE Write(_, _)
Write(store, batch) ==
    IF batch = << >> THEN store
    ELSE LET o == Head(batch)
         IN  Write(IF o.op = "Put" THEN DictPut(store, o.key, o.value)
                   ELSE DictDel(store, o.key), Tail(batch))

\* _readChunk taking a chunk for present when any of its three keys is: a missing
\* terrain value then reads as an empty record.
ReadChunkAnyKey(store, c) ==
    LET terrain == DictGet(store, Key(c, TagTerrain))
        other == DictGet(store, Key(c, TagTileEntities)).some
                    \/ DictGet(store, Key(c, TagEntities)).some
    IN  IF ~terrain.some /\ ~other THEN [status |-> "None", len |-> 0, data |-> << >>]
        ELSE IF ~terrain.some \/ Len(terrain.v) # TerrainLen
        THEN [status |-> "ChunkMalformed",
              len |-> IF terrain.some THEN Len(terrain.v) ELSE 0, data |-> << >>]
        ELSE [status |-> "ok", len |-> Len(terrain.v),
              data |-> [terrain |-> terrain.v,
                        tile_entities |-> DictGet(store, Key(c, TagTileEntities)),
                        entities |-> DictGet(store, Key(c, TagEntities))]]

\* _readChunk rejecting only records that are too short.
ReadChunkShortOnly(store, c) ==
    LET terrain == DictGet(store, Key(c, TagTerrain))
    IN  IF ~terrain.some THEN [status |-> "None", len |-> 0, data |-> << >>]
        ELSE IF Len(terrain.v) < TerrainLen
        THEN [status |-> "ChunkMalformed", len |-> Len(terrain.v), data |-> << >>]
        ELSE [status |-> "ok", len |-> Len(terrain.v),
              data |-> [terrain |-> terrain.v,
                        tile_entities |-> DictGet(store, Key(c, TagTileEntities)),
                        entities |-> DictGet(store, Key(c, TagEntities))]]

\* _readChunk(cx, cz): None when the terrain key is absent, ChunkMalformed when
\* its length is not that of a terrain record, else the three values.
ReadChunk(store, c) ==
    LET terrain == DictGet(store, Key(c, TagTerrain))
    IN  IF ~terrain.some THEN [status |-> "None", len |-> 0, data |-> << >>]
        ELSE IF Len(terrain.v) # TerrainLen
        THEN [status |-> "ChunkMalformed", len |-> Len(terrain.v), data |-> << >>]
        ELSE [status |-> "ok", len |-> Len(terrain.v),
              data |-> [terrain |-> terrain.v,
                        tile_entities |-> DictGet(store, Key(c, TagTileEntities)),
                        entities |-> DictGet(store, Key(c, TagEntities))]]

\* saveChunk(chunk, batch): the Puts buffered for savedData's result; savedData
\* returns strings, never None, for the two entity values.
SaveChunkOps(c, data) ==
    << Put(Key(c, TagTerrain), data[1]),
       Put(Key(c, TagTileEntities), data[2]),
       Put(Key(c, TagEntities), data[3]) >>

\* deleteChunk deleting the entity key of the chunk.
DeleteEntitiesKey(c) == Key(c, TagEntities)

\* PocketLeveldbDatabase.deleteChunk(cx, cz, batch): the key it deletes.
DeleteChunkKey(c) == Key(c, TagTerrain)

RECURSIVE SortKeys(_)
SortKeys(S) ==
    IF S = {} THEN << >>
    ELSE LET m == CHOOSE k \in S : \A j \in S \ {k} : KeyLess(k, j)
         IN  << m >> \o SortKeys(S \ {m})

\* getAllChunks(): the keys in the store's order, those whose 9th byte is "0".
GetAllChunks(store) ==
    LET keys == SortKeys({k \in DOMAIN store : k[9] = TagTerrain})
    IN  [i \in 1 .. Len(keys) |->
            << UnpackI(SubSeq(keys[i], 1, 4)), UnpackI(SubSeq(keys[i], 5, 8)) >>]

\* --------------------------------------------------- PocketLeveldbWorld
InList(list, x) == \E i \in 1 .. Len(list) : list[i] = x

\* list.remove(x): the first occurrence (x is in the list).
ListRemove(list, x) ==
    LET i == CHOOSE j \in 1 .. Len(list) : list[j] = x /\ \A k \in 1 .. (j - 1) : list[k] # x
    IN  SubSeq(list, 1, i - 1) \o SubSeq(list, i + 1, Len(list))

\* The allChunks property: the memo, filled from the store when it is None.
AllChunksOf(memo, store) == IF memo.some THEN memo ELSE Some(GetAllChunks(store))

\* containsChunk(cx, cz), which reads the allChunks property.
ContainsChunk(memo, store, c) == InList(AllChunksOf(memo, store).v, c)

NoGen == [active |-> FALSE, size |-> 0, visited |-> {}, batch |-> << >>]

Ret(op, c, result, n) == [op |-> op, c |-> c, result |-> result, n |-> n]

\* ------------------------------------------------------------- world_db
\* What no operation on an open world changes.
Fixed == UNCHANGED << holdDatabaseOpen, levelDat, world, root_tag, probe, otherWorld >>

\* An operation that enters no world_db() scope.
NoWorldDb ==
    /\ UNCHANGED << worldDb, liveHandles >>
    /\ yielded' = "none"
    /\ Fixed

\* world_db() that opens a leveldb_mcpe.DB at every acquisition, whatever
\* _world_db holds, and stores it.
WorldDbAlwaysOpens ==
    /\ worldDb' = (holdDatabaseOpen \/ worldDb)
    /\ liveHandles' = IF holdDatabaseOpen THEN liveHandles + 1 ELSE liveHandles
    /\ yielded' = "fresh"
    /\ Fixed

\* An operation whose world_db() scopes are all left normally (or by a return).
\* Holding the database open: the DB of _world_db is yielded, opened first when
\* _world_db is None.  Otherwise: a DB is opened for the scope; its last
\* reference goes when the caller returns.
WorldDb ==
    /\ worldDb' = (holdDatabaseOpen \/ worldDb)
    /\ liveHandles' = IF holdDatabaseOpen /\ ~worldDb THEN liveHandles + 1 ELSE liveHandles
    /\ yielded' = IF holdDatabaseOpen /\ worldDb THEN "held" ELSE "fresh"
    /\ Fixed

\* A close() that releases through _world_db without testing it for None:
\* AttributeError when there is no handle.
DbCloseUnguarded(hold, wdb) ==
    IF hold /\ wdb THEN [worldDb |-> FALSE, released |-> 1, raised |-> ""]
    ELSE [worldDb |-> wdb, released |-> 0, raised |-> IF hold THEN "AttributeError" ELSE ""]

\* PocketLeveldbDatabase.close(): del self._world_db; self._world_db = None,
\* when the database is held open and _world_db is not None.
DbClose(hold, wdb) ==
    IF hold /\ wdb THEN [worldDb |-> FALSE, released |-> 1, raised |-> ""]
    ELSE [worldDb |-> wdb, released |-> 0, raised |-> ""]

\* ------------------------------------------------------------ level.dat
\* level.dat as loadLevelDat slices it: [:4], [4:8], [8:].  `payload` is the
\* number of bytes after the first eight, `parses` whether nbt.load accepts them.
LevelDat(magic, length, payload, parses) ==
    [magic |-> magic, length |-> length, payload |-> payload, parses |-> parses]

\* Format versions, as the integers a writer packs little-endian.
Versions == {-1, 0, 2, 3, 4}

\* The files a directory can hold: every version, a version 3 written
\* big-endian, a file two bytes long; every declared length against every
\* actual length.
LevelDats ==
    {LevelDat(m, PackI(n), k, ok) :
        m \in {PackI(v) : v \in Versions} \cup {<< 0, 0, 0, 3 >>, << 3, 0 >>},
        n \in 0 .. MaxPayload, k \in 0 .. MaxPayload, ok \in BOOLEAN}

GoodLevelDat == LevelDat(PackI(3), PackI(1), 1, TRUE)

\* loadLevelDat accepting every version.
LoadLevelDatAnyVersion(dat, create, n) ==
    LET inside == LittleEndianEnter(n)
    IN  IF create
        THEN [raised |-> "", root_tag |-> None, nbt |-> LittleEndianExit(inside)]
        ELSE IF Len(dat.magic) # 4
        THEN [raised |-> "struct.error", root_tag |-> None, nbt |-> LittleEndianRaise(inside)]
        ELSE IF dat.payload # UnpackI(dat.length) \/ ~dat.parses
        THEN [raised |-> "", root_tag |-> None, nbt |-> LittleEndianExit(inside)]
        ELSE [raised |-> "", root_tag |-> Some(dat.payload), nbt |-> LittleEndianExit(inside)]

\* loadLevelDat(create): under littleEndianNBT, the version test raises
\* InvalidPocketLevelDBWorldException; the length test and nbt.load raise
\* nbt.NBTFormatError, which the except clause logs and drops, so the call
\* returns with root_tag never assigned (None, the class attribute).
LoadLevelDat(dat, create, n) ==
    LET inside == LittleEndianEnter(n)
    IN  IF create
        THEN [raised |-> "", root_tag |-> None, nbt |-> LittleEndianExit(inside)]
        ELSE IF Len(dat.magic) # 4
        THEN [raised |-> "struct.error", root_tag |-> None, nbt |-> LittleEndianRaise(inside)]
        ELSE IF UnpackI(dat.magic) < 3
        THEN [raised |-> "InvalidPocketLevelDBWorldException", root_tag |-> None,
              nbt |-> LittleEndianRaise(inside)]
        ELSE IF dat.payload # UnpackI(dat.length) \/ ~dat.parses
        THEN [raised |-> "", root_tag |-> None, nbt |-> LittleEndianExit(inside)]
        ELSE [raised |-> "", root_tag |-> Some(dat.payload), nbt |-> LittleEndianExit(inside)]

\* No codec function under test.
\* ------------------------------------------------- NBT on the wire
\* Type bytes of the tags the model writes: TAG_Byte, TAG_Int, TAG_Compound.
TypeByte == 1
TypeInt == 3
TypeCompound == 10

\* A named tag: a TAG_Byte or TAG_Int holding int, or a TAG_Compound holding
\* tags.
Tag(type, name, int, tags) == [type |-> type, name |-> name, int |-> int, tags |-> tags]

\* tag.save(compressed=False) under littleEndianNBT: the type byte, the name
\* (length as "<h", then its bytes), the payload; a compound's payload is its
\* tags and the End byte.
RECURSIVE EncodeTag(_)
RECURSIVE EncodeTags(_)
EncodeTag(t) ==
    << t.type, Len(t.name) % 256, Len(t.name) \div 256 >> \o t.name \o
        (IF t.type = TypeByte THEN << t.int % 256 >>
         ELSE IF t.type = TypeInt THEN PackI(t.int)
         ELSE EncodeTags(t.tags) \o << 0 >>)

EncodeTags(ts) == IF ts = << >> THEN << >> ELSE EncodeTag(Head(ts)) \o EncodeTags(Tail(ts))

\* savedData: the values of the entity and tile-entity keys, each compound's
\* bytes after the other.
EncodeList(S) == EncodeTags(S)

\* The nbt loader raising: the buffer ended inside a tag, or a type byte the
\* model does not write.
ParseFails == [ok |-> FALSE, tags |-> << >>, rest |-> << >>]

\* nbt: the tags of a compound's payload up to its End byte, and the bytes
\* after it.  The loop reads tags while bytes are left: a buffer that ends
\* where a tag would start ends the compound; one that ends inside a tag
\* raises.
RECURSIVE ParseTags(_)
ParseTags(b) ==
    IF b = << >> THEN [ok |-> TRUE, tags |-> << >>, rest |-> << >>]
    ELSE IF b[1] = 0 THEN [ok |-> TRUE, tags |-> << >>, rest |-> Tail(b)]
    ELSE IF Len(b) < 3 \/ Len(b) < 3 + b[2] + 256 * b[3] THEN ParseFails
    ELSE LET n == b[2] + 256 * b[3]
             name == SubSeq(b, 4, 3 + n)
             body == SubSeq(b, 4 + n, Len(b))
             one == IF b[1] = TypeByte
                    THEN IF Len(body) < 1 THEN ParseFails
                         ELSE [ok |-> TRUE, tags |-> << Tag(TypeByte, name, body[1], << >>) >>,
                               rest |-> Tail(body)]
                    ELSE IF b[1] = TypeInt
                    THEN IF Len(body) < 4 THEN ParseFails
                         ELSE [ok |-> TRUE,
                               tags |-> << Tag(TypeInt, name, UnpackI(SubSeq(body, 1, 4)), << >>) >>,
                               rest |-> SubSeq(body, 5, Len(body))]
                    ELSE IF b[1] = TypeCompound
                    THEN LET inner == ParseTags(body)
                         IN  IF ~inner.ok THEN ParseFails
                             ELSE [ok |-> TRUE, tags |-> << Tag(TypeCompound, name, 0, inner.tags) >>,
                                   rest |-> inner.rest]
                    ELSE ParseFails
         IN  IF ~one.ok THEN ParseFails
             ELSE LET more == ParseTags(one.rest)
                  IN  IF ~more.ok THEN ParseFails
                      ELSE [ok |-> TRUE, tags |-> one.tags \o more.tags, rest |-> more.rest]

\* nbt.load(buf=...): the root compound of the buffer; what follows its End
\* byte is not read.  A buffer that does not start with a compound raises.
NbtLoad(buf) ==
    IF buf = << >> \/ buf[1] # TypeCompound \/ Len(buf) < 3 \/ Len(buf) < 3 + buf[2] + 256 * buf[3]
    THEN ParseFails
    ELSE LET n == buf[2] + 256 * buf[3]
             inner == ParseTags(SubSeq(buf, 4 + n, Len(buf)))
         IN  IF ~inner.ok THEN ParseFails
             ELSE [ok |-> TRUE, tags |-> << Tag(TypeCompound, SubSeq(buf, 4, 3 + n), 0, inner.tags) >>,
                   rest |-> inner.rest]

\* sep = "\x00\x00\x00\x00\n"
Sep == << 0, 0, 0, 0, TypeCompound >>

\* Where sep occurs in d.
SepAt(d) == {i \in 1 .. Len(d) - Len(Sep) + 1 : SubSeq(d, i, i + Len(Sep) - 1) = Sep}

\* _data.split(sep): the pieces between the occurrences of sep, found from
\* the left, not overlapping.
RECURSIVE Split(_)
Split(d) ==
    IF SepAt(d) = {} THEN << d >>
    ELSE LET i == CHOOSE j \in SepAt(d) : \A k \in SepAt(d) : j <= k
         IN  << SubSeq(d, 1, i - 1) >> \o Split(SubSeq(d, i + Len(Sep), Len(d)))

\* The loop of load(_data): an empty piece is skipped, a piece gets its "\n"
\* back and four zero bytes behind it, and is loaded as one compound.  The
\* first piece that does not load raises out of the loop.
RECURSIVE LoadPieces(_)
LoadPieces(pieces) ==
    IF pieces = << >> THEN [raised |-> FALSE, compounds |-> << >>]
    ELSE LET d == Head(pieces)
             buf == (IF d[1] = TypeCompound THEN d ELSE << TypeCompound >> \o d) \o << 0, 0, 0, 0 >>
         IN  IF d = << >> THEN LoadPieces(Tail(pieces))
             ELSE IF ~NbtLoad(buf).ok THEN [raised |-> TRUE, compounds |-> << >>]
             ELSE LET more == LoadPieces(Tail(pieces))
                  IN  IF more.raised THEN more
                      ELSE [raised |-> FALSE, compounds |-> NbtLoad(buf).tags \o more.compounds]

\* loadNBTCompoundList(data): what it returns, or that it raised.
LoadNBTCompoundList(data) == LoadPieces(Split(data))

\* The name of the tag "id".
IdName == << 105, 100 >>

\* An entity in memory: its "id" tag and its other tags.
Entity(id, tags) == [id |-> id, tags |-> tags]

\* savedData's entity loop for one entity (lines 597-601), the lookup and the
\* emit succeeding: ent["id"] = TAG_Int(...) puts the tag last in the
\* compound, the compound is emitted, ent["id"] = TAG_String(v).
EmitEntity(ent) ==
    [data |-> EncodeTag(Tag(TypeCompound, << >>, 0,
                            ent.tags \o << Tag(TypeInt, IdName, entityList[ent.id.s], << >>) >>)),
     ent |-> [ent EXCEPT !.id = TAG_String(ent.id.s)]]

\* The tags of a compound named name, and the others.
Named(ts, name) == SelectSeq(ts, LAMBDA t : t.name = name)
NotNamed(ts, name) == SelectSeq(ts, LAMBDA t : t.name # name)

\* __init__'s loop over the loaded compounds (lines 520-522): ent["id"] and
\* the lookup in invertEntities raise KeyError.
IdKnown(c) ==
    /\ Named(c.tags, IdName) # << >>
    /\ Named(c.tags, IdName)[1].int \in DOMAIN invertEntities

InvertId(c) ==
    Entity(TAG_String(invertEntities[Named(c.tags, IdName)[1].int]), NotNamed(c.tags, IdName))

\* __init__ for the entity key (lines 516-523): the entities, or that it raised.
LoadEntities(data) ==
    LET r == LoadNBTCompoundList(data)
    IN  IF r.raised THEN [raised |-> "NBTFormatError", entities |-> << >>]
        ELSE IF \E i \in 1 .. Len(r.compounds) : ~IdKnown(r.compounds[i])
        THEN [raised |-> "KeyError", entities |-> << >>]
        ELSE [raised |-> "", entities |-> [i \in 1 .. Len(r.compounds) |-> InvertId(r.compounds[i])]]

NoProbe == [kind |-> "none"]

\* No second world constructed: its store, what its last operation returned,
\* and the chunk its last getChunk returned.
NoOtherWorld ==
    [open |-> FALSE, db |-> EmptyDict, ret |-> Ret("none", << >>, "ok", 0), chunk |-> None]

\* ----------------------------------------------------------------- Init
\* A terrain record of the right length for chunk c: Blocks, then three
\* nibble-packed arrays (bytes 44, 45, ...: high nibble 2, low nibble 12, 13, ...), then
\* DirtyColumns (0) and GrassColors.
InitTerrain(c) ==
    [i \in 1 .. TerrainLen |->
        IF i <= OffData THEN 1 + c[1] + 2 * c[2]
        ELSE IF i <= OffDirty THEN 43 + (i - OffData)
        ELSE IF i <= OffGrass THEN 0
        ELSE 7]

\* The terrain value of a store key by kind: a record of the right length,
\* one byte short, or one byte long.
TerrainOfKind(c, kind) ==
    IF kind = "ok" THEN InitTerrain(c)
    ELSE IF kind = "short" THEN SubSeq(InitTerrain(c), 1, TerrainLen - 1)
    ELSE InitTerrain(c) \o << 0 >>

FirstCoord == << 0, 0 >>

\* The stores a session can start from: a terrain key for every coordinate,
\* and for (0, 0) a tile-entity key (one chest) and an entity key (one zombie,
\* by its integer id).
InitStore(kinds) ==
    [k \in {Key(c, TagTerrain) : c \in Coords}
            \cup {Key(FirstCoord, TagTileEntities), Key(FirstCoord, TagEntities)} |->
        IF k[9] = TagTerrain
        THEN LET c == << UnpackI(SubSeq(k, 1, 4)), UnpackI(SubSeq(k, 5, 8)) >>
             IN  TerrainOfKind(c, kinds[c])
        ELSE IF k[9] = TagTileEntities THEN << SaveCompound(Compound(TAG_String("Chest"), TRUE)) >>
        ELSE << SaveCompound(Compound(TAG_Int(32), TRUE)) >>]

InitKinds == {kinds \in [Coords -> {"ok", "short", "long"}] : kinds[FirstCoord] = "ok"}

\* No chunk loaded, no enumeration, no scope, no generator.
InitIdle ==
    /\ loadedChunks = EmptyDict
    /\ allChunks = None
    /\ classList = << >>
    /\ scopes = << >>
    /\ gen = NoGen
    /\ hostBatch = << >>
    /\ appended = 0

\* ... and no codec function called by itself.
InitCache ==
    /\ InitIdle
    /\ probe = NoProbe
    /\ otherWorld = NoOtherWorld

\* What PocketLeveldbWorld(filename) leaves of a good level.dat: root_tag
\* loaded under littleEndianNBT.
InitOpened ==
    /\ nbt = LittleEndianExit(LittleEndianEnter(NbtDefault))
    /\ ret = Ret("open", << >>, "ok", 0)
    /\ levelDat = GoodLevelDat
    /\ world = "open"
    /\ root_tag = Some(GoodLevelDat.payload)

\* PocketLeveldbDatabase.__init__ has entered world_db() once: holding the
\* database open, _world_db is set from then on.
InitHandle(hold) ==
    /\ holdDatabaseOpen = hold
    /\ worldDb = hold
    /\ liveHandles = IF hold THEN 1 ELSE 0
    /\ yielded = "fresh"

\* The state PocketLeveldbWorld(filename) leaves, holdDatabaseOpen at its default.
InitRest ==
    /\ InitCache
    /\ InitOpened
    /\ InitHandle(TRUE)

Init ==
    /\ db \in {InitStore(kinds) : kinds \in InitKinds}
    /\ InitRest

\* Every terrain record of the store has the length of a terrain record.
InitWellFormed ==
    /\ db = InitStore([c \in Coords |-> "ok"])
    /\ InitRest

\* -------------------------------------------------------------- actions
\* A chunk inserted into the dict while saveInPlaceGen is suspended lands in a
\* slot before or after the dict iterator's position: the iterator will skip
\* it or reach it.  A key the iterator has passed hashes to the slot it had,
\* which stays behind the iterator.
GenAfterInsert(g, c) ==
    IF g.active THEN {g, [g EXCEPT !.visited = @ \cup {c}]} ELSE {g}

\* loadChunk(cx, cz, world): what getChunk gets for a chunk not in the cache.
LoadChunk(store, c) ==
    LET r == ReadChunk(store, c)
    IN  IF r.status = "None" THEN [status |-> "ChunkNotPresent", len |-> 0, data |-> << >>]
        ELSE IF r.status = "ok" /\ ChunkInitRaises(r.data)
        THEN [status |-> "KeyError", len |-> r.len, data |-> r.data]
        ELSE r

\* getChunk(cx, cz)
GetChunk(c) ==
    /\ IF c \in DOMAIN loadedChunks
       THEN /\ ret' = Ret("getChunk", c, "ok", 0)
            /\ UNCHANGED << db, loadedChunks, allChunks, classList, nbt, scopes, gen,
                            hostBatch, appended >>
       ELSE LET r == LoadChunk(db, c)
            IN  /\ ret' = Ret("getChunk", c, r.status, r.len)
                /\ IF r.status = "ok"
                   THEN /\ loadedChunks' = DictPut(loadedChunks, c, ChunkInit(r.data))
                        /\ gen' \in GenAfterInsert(gen, c)
                   ELSE UNCHANGED << loadedChunks, gen >>
                /\ nbt' = IF r.status \in {"ok", "KeyError"}
                          THEN NbtAfterChunkInit(nbt, r.data) ELSE nbt
                /\ UNCHANGED << db, allChunks, classList, scopes, hostBatch, appended >>
    /\ IF c \in DOMAIN loadedChunks THEN NoWorldDb ELSE WorldDb

\* The host reads the allChunks property.
AllChunks ==
    /\ allChunks' = AllChunksOf(allChunks, db)
    /\ ret' = Ret("allChunks", << >>, "ok", Len(allChunks'.v))
    /\ UNCHANGED << db, loadedChunks, classList, nbt, scopes, gen, hostBatch, appended >>
    /\ IF allChunks.some THEN NoWorldDb ELSE WorldDb

\* unload(): the cache cleared, the memo dropped, worldFile.close().
\* PocketLeveldbWorld.close() is unload() and nothing more.  ret.n is 1 when
\* the call follows another unload or close.
Unloading(op) ==
    LET r == DbClose(holdDatabaseOpen, worldDb)
    IN  /\ loadedChunks' = EmptyDict
        /\ allChunks' = None
        /\ worldDb' = r.worldDb
        /\ liveHandles' = liveHandles - r.released
        /\ yielded' = "none"
        /\ ret' = Ret(op, << >>, IF r.raised = "" THEN "ok" ELSE r.raised,
                      IF ret.op \in {"unload", "close"} THEN 1 ELSE 0)
        /\ UNCHANGED << db, classList, nbt, scopes, gen, hostBatch, appended >>
        /\ Fixed

Unload == Unloading("unload")

Close == Unloading("close")

\* getAllChunks() when the iterator reports an error: it.status() raises inside
\* the world_db() scope, so the memo is not assigned.  When the database is not
\* held open, the `del db` after the yield is not reached: the DB lives as
\* long as the traceback keeps the frames of the scope, which is until the
\* host drops the exception.
AllChunksFails ==
    /\ ~allChunks.some
    /\ liveHandles < MaxLive
    /\ ret' = Ret("allChunks", << >>, "RuntimeError", 0)
    /\ worldDb' = (holdDatabaseOpen \/ worldDb)
    /\ yielded' = IF holdDatabaseOpen /\ worldDb THEN "held" ELSE "fresh"
    /\ liveHandles' \in IF holdDatabaseOpen
                        THEN {IF worldDb THEN liveHandles ELSE liveHandles + 1}
                        ELSE {liveHandles, liveHandles + 1}
    /\ UNCHANGED << db, loadedChunks, allChunks, classList, nbt, scopes, gen,
                    hostBatch, appended >>
    /\ Fixed

\* The host drops the exception it caught: the frames of the failed scopes
\* go, and with them the DB objects only they referred to.
DropException ==
    /\ ~holdDatabaseOpen
    /\ liveHandles > 0
    /\ liveHandles' = 0
    /\ ret' = Ret("dropException", << >>, "ok", 0)
    /\ yielded' = "none"
    /\ UNCHANGED << db, loadedChunks, allChunks, classList, nbt, scopes, gen,
                    hostBatch, appended, worldDb >>
    /\ Fixed

\* PocketLeveldbWorld.deleteChunk after worldFile.deleteChunk has run against
\* `store`: a chunk in the cache is dropped from it and removed from the
\* allChunks list (list.remove raises ValueError when it is not in the list);
\* a chunk not in the cache leaves the list as it is.
ForgetChunk(loaded, memo, store, c) ==
    IF c \in DOMAIN loaded
    THEN LET m == AllChunksOf(memo, store)
         IN  IF InList(m.v, c)
             THEN [loaded |-> DictDel(loaded, c), memo |-> Some(ListRemove(m.v, c)),
                   raised |-> ""]
             ELSE [loaded |-> DictDel(loaded, c), memo |-> m, raised |-> "ValueError"]
    ELSE [loaded |-> loaded, memo |-> memo, raised |-> ""]

\* deleteChunk(cx, cz) with batch=None: db.Delete at once.
DeleteChunk(c) ==
    /\ LET store == DictDel(db, DeleteChunkKey(c))
           f == ForgetChunk(loadedChunks, allChunks, store, c)
       IN  /\ db' = store
           /\ loadedChunks' = f.loaded
           /\ allChunks' = f.memo
           /\ ret' = Ret("deleteChunk", c, IF f.raised = "" THEN "ok" ELSE f.raised, 0)
           /\ UNCHANGED << classList, nbt, scopes, gen, hostBatch, appended >>
    /\ WorldDb

\* deleteChunk(cx, cz, batch=hostBatch): batch.Delete; the store is untouched
\* until the host writes the batch.
DeleteChunkBatch(c) ==
    /\ LET f == ForgetChunk(loadedChunks, allChunks, db, c)
       IN  /\ Len(hostBatch) < MaxBatch
           /\ hostBatch' = Append(hostBatch, Delete(DeleteChunkKey(c)))
           /\ loadedChunks' = f.loaded
           /\ allChunks' = f.memo
           /\ ret' = Ret("deleteChunk", c, IF f.raised = "" THEN "ok" ELSE f.raised, 1)
           /\ UNCHANGED << db, classList, nbt, scopes, gen, appended >>
    /\ IF c \in DOMAIN loadedChunks /\ ~allChunks.some THEN WorldDb ELSE NoWorldDb

\* The host writes its batch: db.Write(wop, batch).
HostWrite ==
    /\ hostBatch # << >>
    /\ db' = Write(db, hostBatch)
    /\ hostBatch' = << >>
    /\ ret' = Ret("write", << >>, "ok", 0)
    /\ UNCHANGED << loadedChunks, allChunks, classList, nbt, scopes, gen, appended >>
    /\ WorldDb

\* The boxes a host passes: 0 <= min <= max <= Max + 1 on each axis, an empty
\* range written [0, 0).
Boxes ==
    {b \in [mincx : 0 .. MaxCx + 1, maxcx : 0 .. MaxCx + 1,
            mincz : 0 .. MaxCz + 1, maxcz : 0 .. MaxCz + 1] :
        /\ b.mincx <= b.maxcx /\ (b.mincx = b.maxcx => b.mincx = 0)
        /\ b.mincz <= b.maxcz /\ (b.mincz = b.maxcz => b.mincz = 0)}

\* itertools.product(xrange(box.mincx, box.maxcx), xrange(box.mincz, box.maxcz))
BoxCoords(box) ==
    LET nx == box.maxcx - box.mincx
        nz == box.maxcz - box.mincz
    IN  [i \in 1 .. nx * nz |->
            << box.mincx + ((i - 1) \div nz), box.mincz + ((i - 1) % nz) >>]

\* The loop of deleteChunksInBox over the coordinates `cs`, from the point `st`.
RECURSIVE BoxLoop(_, _, _)
BoxLoop(st, cs, store) ==
    IF cs = << >> \/ st.raised # "" THEN st
    ELSE LET c == Head(cs)
             m == AllChunksOf(st.memo, store)
             present == InList(m.v, c)
             f == IF present THEN ForgetChunk(st.loaded, m, store, c)
                  ELSE [loaded |-> st.loaded, memo |-> m, raised |-> ""]
             asserted == ~InList(f.memo.v, c)
         IN  BoxLoop([loaded |-> f.loaded, memo |-> f.memo,
                      batch |-> IF present
                                THEN Append(st.batch, Delete(DeleteChunkKey(c)))
                                ELSE st.batch,
                      n |-> IF present THEN st.n + 1 ELSE st.n,
                      raised |-> IF f.raised # "" THEN f.raised
                                 ELSE IF asserted THEN "" ELSE "AssertionError"],
                     Tail(cs), store)

\* The loop of deleteChunksInBox(box) from its start in the current state:
\* the deletes go to the batch, the store is not written.
BoxRun(box) ==
    BoxLoop([loaded |-> loadedChunks, memo |-> allChunks, batch |-> << >>,
             n |-> 0, raised |-> ""], BoxCoords(box), db)

\* The number of db.Write calls of deleteChunksInBox: the one after the loop,
\* which an exception out of the loop skips.
BoxCommits(st) == IF st.raised = "" THEN 1 ELSE 0

\* deleteChunksInBox(box): the loop, then db.Write(wop, batch) unless the loop raised.
DeleteChunksInBox(box) ==
    LET st == BoxRun(box)
    IN  /\ loadedChunks' = st.loaded
        /\ allChunks' = st.memo
        /\ db' = IF st.raised = "" THEN Write(db, st.batch) ELSE db
        /\ IF st.raised = "" \/ ~allChunks.some THEN WorldDb ELSE NoWorldDb
        /\ ret' = Ret("deleteChunksInBox", << >>,
                      IF st.raised = "" THEN "ok" ELSE st.raised, st.n)
        /\ UNCHANGED << classList, nbt, scopes, gen, hostBatch, appended >>

\* The host edits a cached chunk in place and marks it dirty: setBlockAt and
\* setBlockDataAt on one cell (the Data value in [0, 15], as the encoder requires).
EditedChunk(chunk) ==
    [chunk EXCEPT !.Blocks[1] = 200, !.Data[2] = 5, !.dirty = TRUE]

Edit(c) ==
    /\ c \in DOMAIN loadedChunks
    /\ loadedChunks' = [loadedChunks EXCEPT ![c] = EditedChunk(@)]
    /\ ret' = Ret("edit", c, "ok", 0)
    /\ UNCHANGED << db, allChunks, classList, nbt, scopes, gen, hostBatch, appended >>
    /\ NoWorldDb

\* The entities a host appends: one that saves, one whose id is not in the
\* Entity Id Table, one that cannot be emitted.
HostEntities ==
    { Compound(TAG_String("Chicken"), TRUE),
      Compound(TAG_String("Herobrine"), TRUE),
      Compound(TAG_String("Chicken"), FALSE) }

\* chunk.Entities.append(ent); chunk.dirty = True.  The list is the chunk's own
\* or the class-level one.
AppendEntity(c) ==
    /\ c \in DOMAIN loadedChunks
    /\ appended < MaxAppend
    /\ appended' = appended + 1
    /\ \E ent \in HostEntities :
          LET chunk == loadedChunks[c]
              w == WithEntities(chunk, classList, Append(EntitiesOf(chunk, classList), ent))
          IN  /\ loadedChunks' = [loadedChunks EXCEPT ![c] = [w.chunk EXCEPT !.dirty = TRUE]]
              /\ classList' = w.cls
    /\ ret' = Ret("append", c, "ok", 0)
    /\ UNCHANGED << db, allChunks, nbt, scopes, gen, hostBatch >>
    /\ NoWorldDb

\* saveInPlaceGen leaving dirty set until the batch is written.
MarkSavedAtCommit(chunk) == chunk

\* saveInPlaceGen setting dirty instead of clearing it.
MarkSavedNot(chunk) == [chunk EXCEPT !.dirty = TRUE]

\* chunk.dirty = False, once saveChunk has buffered the chunk.
MarkSaved(chunk) == [chunk EXCEPT !.dirty = FALSE]

\* The generator a next() runs: the suspended one, or a new one whose dict
\* iterator remembers the dict's size.
GenNow ==
    IF gen.active THEN gen
    ELSE [active |-> TRUE, size |-> Cardinality(DOMAIN loadedChunks),
          visited |-> {}, batch |-> << >>]

\* A loop over the dirty chunks only.
IterRestDirty(loaded, g) == {c \in (DOMAIN loaded) \ g.visited : loaded[c].dirty}

\* for chunk in self._loadedChunks.itervalues(): the chunks still to come,
\* dirty or not.
IterRest(loaded, g) == (DOMAIN loaded) \ g.visited

\* The next() that finds the loop at its end and writes the batch.
SaveCommits ==
    /\ Cardinality(DOMAIN loadedChunks) = GenNow.size
    /\ IterRest(loadedChunks, GenNow) = {}

\* One next() of saveInPlaceGen.  The first creates the batch and the dict
\* iterator.  The iterator raises RuntimeError when the dict's size changed;
\* it then yields after one more chunk, or the loop ends and the batch is written.
SaveNext ==
    LET g == GenNow
        rest == IterRest(loadedChunks, g)
    IN  /\ IF SaveCommits THEN WorldDb ELSE NoWorldDb
        /\ IF Cardinality(DOMAIN loadedChunks) # g.size
           THEN /\ gen' = NoGen
                /\ ret' = Ret("save", << >>, "RuntimeError", 0)
                /\ UNCHANGED << db, loadedChunks, allChunks, classList, nbt, scopes,
                                hostBatch, appended >>
           ELSE IF rest = {}
           THEN /\ db' = Write(db, g.batch)
                /\ gen' = NoGen
                /\ ret' = Ret("save", << >>, "done", 0)
                /\ UNCHANGED << loadedChunks, allChunks, classList, nbt, scopes,
                                hostBatch, appended >>
           ELSE \E c \in rest :
                   LET chunk == loadedChunks[c]
                       r == savedData(chunk, classList, nbt)
                   IN  IF ~chunk.dirty
                       THEN /\ gen' = [g EXCEPT !.visited = @ \cup {c}]
                            /\ ret' = Ret("save", c, "yield", 0)
                            /\ UNCHANGED << db, loadedChunks, allChunks, classList, nbt,
                                            scopes, hostBatch, appended >>
                       ELSE IF r.raised # ""
                       THEN /\ gen' = NoGen
                            /\ loadedChunks' = [loadedChunks EXCEPT ![c] = r.chunk]
                            /\ classList' = r.cls
                            /\ nbt' = r.nbt
                            /\ ret' = Ret("save", c, r.raised, 0)
                            /\ UNCHANGED << db, allChunks, scopes, hostBatch, appended >>
                       ELSE /\ gen' = [g EXCEPT !.visited = @ \cup {c},
                                                !.batch = @ \o SaveChunkOps(c, r.data)]
                            /\ loadedChunks' = [loadedChunks EXCEPT
                                                   ![c] = MarkSaved(r.chunk)]
                            /\ classList' = r.cls
                            /\ nbt' = r.nbt
                            /\ ret' = Ret("save", c, "yield", 1)
                            /\ UNCHANGED << db, allChunks, scopes, hostBatch, appended >>

\* worldFile.saveChunk(chunk) with batch=None on a cached chunk, dirty or
\* not: savedData(), then the three Puts at once.  The dirty flag is the
\* caller's to clear.
SaveChunk(c) ==
    /\ c \in DOMAIN loadedChunks
    /\ LET r == savedData(loadedChunks[c], classList, nbt)
       IN  /\ loadedChunks' = [loadedChunks EXCEPT ![c] = r.chunk]
           /\ classList' = r.cls
           /\ nbt' = r.nbt
           /\ db' = IF r.raised = "" THEN Write(db, SaveChunkOps(c, r.data)) ELSE db
           /\ ret' = Ret("saveChunk", c, IF r.raised = "" THEN "ok" ELSE r.raised, 0)
           /\ IF r.raised = "" THEN WorldDb ELSE NoWorldDb
    /\ UNCHANGED << allChunks, scopes, gen, hostBatch, appended >>

\* The host drops a suspended generator: its batch is never written.
SaveAbandon ==
    /\ gen.active
    /\ gen' = NoGen
    /\ ret' = Ret("abandon", << >>, "ok", 0)
    /\ UNCHANGED << db, loadedChunks, allChunks, classList, nbt, scopes, hostBatch, appended >>
    /\ NoWorldDb

\* The host enters `with littleEndianNBT():`; scopes remembers the settings in
\* effect before the scope was entered.
EnterScope ==
    /\ Len(scopes) < MaxNest
    /\ scopes' = Append(scopes, nbt)
    /\ nbt' = LittleEndianEnter(nbt)
    /\ ret' = Ret("enterScope", << >>, "ok", 0)
    /\ UNCHANGED << db, loadedChunks, allChunks, classList, gen, hostBatch, appended >>
    /\ NoWorldDb

\* The body of the innermost scope ends normally.
ExitScope ==
    /\ scopes # << >>
    /\ scopes' = SubSeq(scopes, 1, Len(scopes) - 1)
    /\ nbt' = LittleEndianExit(nbt)
    /\ ret' = Ret("exitScope", << >>, "ok", 0)
    /\ UNCHANGED << db, loadedChunks, allChunks, classList, gen, hostBatch, appended >>
    /\ NoWorldDb

\* The body of the innermost scope raises.
RaiseInScope ==
    /\ scopes # << >>
    /\ scopes' = SubSeq(scopes, 1, Len(scopes) - 1)
    /\ nbt' = LittleEndianRaise(nbt)
    /\ ret' = Ret("exitScope", << >>, "raised", 0)
    /\ UNCHANGED << db, loadedChunks, allChunks, classList, gen, hostBatch, appended >>
    /\ NoWorldDb

\* PocketLeveldbWorld(filename, create): PocketLeveldbDatabase.__init__ enters
\* world_db() once, then loadLevelDat runs.  When it raises there is no world
\* (and the facade, which nothing refers to, goes with its handle).  The
\* class-level _loadedChunks dict is what it was.
OpenWorld(create) ==
    LET r == LoadLevelDat(levelDat, create, nbt)
    IN  /\ world = "none"
        /\ nbt' = r.nbt
        /\ ret' = Ret("open", << >>, IF r.raised = "" THEN "ok" ELSE r.raised, 0)
        /\ yielded' = "fresh"
        /\ IF r.raised = ""
           THEN /\ world' = "open"
                /\ root_tag' = r.root_tag
                /\ worldDb' = holdDatabaseOpen
                /\ liveHandles' = IF holdDatabaseOpen THEN 1 ELSE 0
           ELSE UNCHANGED << world, root_tag, worldDb, liveHandles >>
        /\ UNCHANGED << db, loadedChunks, allChunks, classList, scopes, gen, hostBatch,
                        appended, holdDatabaseOpen, levelDat, probe, otherWorld >>

\* ------------------------------------------------------ a second world
\* The store of the second world's directory: a terrain key for every
\* coordinate, with other Blocks than the first world's.
OtherTerrain(c) == [InitTerrain(c) EXCEPT ![1] = 9]
OtherStore == [k \in {Key(c, TagTerrain) : c \in Coords} |->
                  OtherTerrain(<< UnpackI(SubSeq(k, 1, 4)), UnpackI(SubSeq(k, 5, 8)) >>)]

\* What the operations of the second world leave alone of the first: its
\* store, its memo, its handle, what its last operation returned.
OtherFixed ==
    UNCHANGED << db, allChunks, classList, scopes, hostBatch, appended, ret,
                 holdDatabaseOpen, worldDb, liveHandles, yielded, levelDat, world, root_tag,
                 probe >>

\* PocketLeveldbWorld(filename2): __init__ assigns filename and worldFile and
\* loads level.dat; _loadedChunks stays the class attribute.
OpenOther ==
    /\ ~otherWorld.open
    /\ otherWorld' = [open |-> TRUE, db |-> OtherStore, ret |-> Ret("open", << >>, "ok", 0),
                      chunk |-> None]
    /\ nbt' = LittleEndianExit(LittleEndianEnter(nbt))
    /\ UNCHANGED << loadedChunks, gen >>
    /\ OtherFixed

\* getChunk(cx, cz) on the second world: self._loadedChunks is the dict of
\* the class; a miss loads from the second world's store into it.
GetChunkOther(c) ==
    /\ otherWorld.open
    /\ IF c \in DOMAIN loadedChunks
       THEN /\ otherWorld' = [otherWorld EXCEPT !.ret = Ret("getChunk", c, "ok", 0),
                                                !.chunk = Some(loadedChunks[c])]
            /\ UNCHANGED << loadedChunks, gen, nbt >>
       ELSE LET r == LoadChunk(otherWorld.db, c)
            IN  /\ otherWorld' = [otherWorld EXCEPT
                                     !.ret = Ret("getChunk", c, r.status, r.len),
                                     !.chunk = IF r.status = "ok" THEN Some(ChunkInit(r.data))
                                               ELSE None]
                /\ IF r.status = "ok"
                   THEN /\ loadedChunks' = DictPut(loadedChunks, c, ChunkInit(r.data))
                        /\ gen' \in GenAfterInsert(gen, c)
                   ELSE UNCHANGED << loadedChunks, gen >>
                /\ nbt' = IF r.status \in {"ok", "KeyError"}
                          THEN NbtAfterChunkInit(nbt, r.data) ELSE nbt
    /\ OtherFixed

\* unload() on the second world: self._loadedChunks.clear() empties the dict
\* of the class.
UnloadOther ==
    /\ otherWorld.open
    /\ loadedChunks' = EmptyDict
    /\ otherWorld' = [otherWorld EXCEPT !.ret = Ret("unload", << >>, "ok", 0), !.chunk = None]
    /\ UNCHANGED << gen, nbt >>
    /\ OtherFixed

\* The world's operations: chunk access, enumeration, delete, save, unload.
Next ==
    \/ \E c \in Coords : GetChunk(c)
    \/ AllChunks
    \/ Unload
    \/ \E c \in Coords : DeleteChunk(c)
    \/ \E c \in Coords : DeleteChunkBatch(c)
    \/ HostWrite
    \/ \E box \in Boxes : DeleteChunksInBox(box)
    \/ \E c \in Coords : Edit(c)
    \/ SaveNext
    \/ SaveAbandon

Spec == Init /\ [][Next]_vars

SpecWellFormed == InitWellFormed /\ [][Next]_vars

\* The save pipeline with entities the host appends.
NextSave ==
    \/ \E c \in Coords : GetChunk(c)
    \/ Unload
    \/ \E c \in Coords : Edit(c)
    \/ \E c \in Coords : AppendEntity(c)
    \/ SaveNext
    \/ SaveAbandon

SpecSave == InitWellFormed /\ [][NextSave]_vars

\* The same, with every run of saveInPlaceGen driven to its end (or dropped)
\* before the host does anything else.
NextSeq ==
    \/ SaveNext
    \/ SaveAbandon
    \/ ~gen.active /\ \E c \in Coords : GetChunk(c)
    \/ ~gen.active /\ Unload
    \/ ~gen.active /\ \E c \in Coords : Edit(c)
    \/ ~gen.active /\ \E c \in Coords : AppendEntity(c)
    \/ ~gen.active /\ \E c \in Coords : DeleteChunk(c)

SpecSeq == InitWellFormed /\ [][NextSeq]_vars

\* The host's own littleEndianNBT scopes around the operations that open one.
NextScope ==
    \/ EnterScope
    \/ ExitScope
    \/ RaiseInScope
    \/ \E c \in Coords : GetChunk(c)
    \/ \E c \in Coords : Edit(c)
    \/ \E c \in Coords : AppendEntity(c)
    \/ SaveNext

SpecScope == InitWellFormed /\ [][NextScope]_vars

\* The store handle, with holdDatabaseOpen set either way before the world is
\* opened, and with store failures.
InitHandles ==
    /\ db = InitStore([c \in Coords |-> "ok"])
    /\ InitCache
    /\ InitOpened
    /\ \E hold \in BOOLEAN : InitHandle(hold)

NextHandles ==
    \/ \E c \in Coords : GetChunk(c)
    \/ AllChunks
    \/ AllChunksFails
    \/ DropException
    \/ Unload
    \/ Close
    \/ \E c \in Coords : DeleteChunk(c)
    \/ \E c \in Coords : Edit(c)
    \/ SaveNext

SpecHandles == InitHandles /\ [][NextHandles]_vars

\* Opening a directory, whatever its level.dat holds, then using the world.
InitOpen ==
    /\ db = InitStore([c \in Coords |-> "ok"])
    /\ InitCache
    /\ nbt = NbtDefault
    /\ ret = Ret("none", << >>, "ok", 0)
    /\ levelDat \in LevelDats
    /\ world = "none"
    /\ root_tag = None
    /\ holdDatabaseOpen = TRUE
    /\ worldDb = FALSE
    /\ liveHandles = 0
    /\ yielded = "none"

NextOpen ==
    \/ \E create \in BOOLEAN : OpenWorld(create)
    \/ world = "open" /\ \E c \in Coords : GetChunk(c)
    \/ world = "open" /\ Close

SpecOpen == InitOpen /\ [][NextOpen]_vars

\* ------------------------------------------------ the codecs by themselves
SeqsUpTo(S, n) == UNION {[1 .. k -> S] : k \in 0 .. n}

\* Tags a compound can hold: bytes and ints named "a", and a compound named
\* "a" holding at most one of them.
TagNames == { << 97 >> }
Leaves ==
    {Tag(TypeByte, n, v, << >>) : n \in TagNames, v \in {0, 5}}
        \cup {Tag(TypeInt, n, v, << >>) : n \in TagNames, v \in {0, 7, 256}}
Nested == {Tag(TypeCompound, n, 0, ts) : n \in TagNames, ts \in SeqsUpTo(Leaves, 1)}

\* The compounds a list holds: the root name is empty.
Compounds == {Tag(TypeCompound, << >>, 0, ts) : ts \in SeqsUpTo(Leaves \cup Nested, MaxTags)}
CompoundLists == SeqsUpTo(Compounds, MaxCompounds)

\* A list of compounds about to be emitted and loaded again.
CompoundsProbe(S) ==
    [kind |-> "compounds", stage |-> "arg", arg |-> S, data |-> << >>,
     out |-> [raised |-> FALSE, compounds |-> << >>]]

\* The state of an open world, and a list of compounds in the host's hands.
InitFraming ==
    /\ db = InitStore([c \in Coords |-> "ok"])
    /\ InitIdle
    /\ InitOpened
    /\ InitHandle(TRUE)
    /\ probe \in {CompoundsProbe(S) : S \in CompoundLists}
    /\ otherWorld = NoOtherWorld

\* savedData's loops over the list: each compound saved under littleEndianNBT.
EmitList ==
    /\ probe.kind = "compounds"
    /\ probe.stage = "arg"
    /\ probe' = [probe EXCEPT !.stage = "emitted", !.data = EncodeList(probe.arg)]
    /\ nbt' = LittleEndianExit(LittleEndianEnter(nbt))
    /\ ret' = Ret("savedData", << >>, "ok", 0)
    /\ UNCHANGED << db, loadedChunks, allChunks, classList, scopes, gen, hostBatch, appended,
                    holdDatabaseOpen, worldDb, liveHandles, yielded, levelDat, world, root_tag,
                    otherWorld >>

\* loadNBTCompoundList(data) on the emitted bytes; an exception leaves
\* littleEndianNBT at its yield.
LoadList ==
    /\ probe.kind = "compounds"
    /\ probe.stage = "emitted"
    /\ LET r == LoadNBTCompoundList(probe.data)
       IN  /\ probe' = [probe EXCEPT !.stage = "loaded", !.out = r]
           /\ nbt' = IF r.raised THEN LittleEndianRaise(LittleEndianEnter(nbt))
                     ELSE LittleEndianExit(LittleEndianEnter(nbt))
           /\ ret' = Ret("loadNBTCompoundList", << >>, IF r.raised THEN "raised" ELSE "ok", 0)
    /\ UNCHANGED << db, loadedChunks, allChunks, classList, scopes, gen, hostBatch, appended,
                    holdDatabaseOpen, worldDb, liveHandles, yielded, levelDat, world, root_tag,
                    otherWorld >>

NextFraming ==
    \/ EmitList
    \/ LoadList

SpecFraming == InitFraming /\ [][NextFraming]_vars

\* An entity of a cached chunk about to be emitted and loaded again.
EntityProbe(ent) ==
    [kind |-> "entity", stage |-> "arg", arg |-> ent, ent |-> ent, data |-> << >>,
     out |-> [raised |-> "", entities |-> << >>]]

\* The entities a chunk holds: an id of the Entity Id Table and other tags.
Entities ==
    {Entity(TAG_String(s), ts) : s \in DOMAIN entityList, ts \in SeqsUpTo(Leaves \cup Nested, MaxTags)}

InitEntity ==
    /\ db = InitStore([c \in Coords |-> "ok"])
    /\ InitIdle
    /\ InitOpened
    /\ InitHandle(TRUE)
    /\ probe \in {EntityProbe(ent) : ent \in Entities}
    /\ otherWorld = NoOtherWorld

\* savedData on a chunk holding the entity.
SaveEntity ==
    /\ probe.kind = "entity"
    /\ probe.stage = "arg"
    /\ LET r == EmitEntity(probe.arg)
       IN  probe' = [probe EXCEPT !.stage = "emitted", !.data = r.data, !.ent = r.ent]
    /\ nbt' = LittleEndianExit(LittleEndianEnter(nbt))
    /\ ret' = Ret("savedData", << >>, "ok", 0)
    /\ UNCHANGED << db, loadedChunks, allChunks, classList, scopes, gen, hostBatch, appended,
                    holdDatabaseOpen, worldDb, liveHandles, yielded, levelDat, world, root_tag,
                    otherWorld >>

\* PocketLeveldbChunk.__init__ on the emitted entity data.
LoadEntity ==
    /\ probe.kind = "entity"
    /\ probe.stage = "emitted"
    /\ LET r == LoadEntities(probe.data)
       IN  /\ probe' = [probe EXCEPT !.stage = "loaded", !.out = r]
           /\ nbt' = IF r.raised = "NBTFormatError" THEN LittleEndianRaise(LittleEndianEnter(nbt))
                     ELSE LittleEndianExit(LittleEndianEnter(nbt))
           /\ ret' = Ret("init", << >>, IF r.raised = "" THEN "ok" ELSE r.raised, 0)
    /\ UNCHANGED << db, loadedChunks, allChunks, classList, scopes, gen, hostBatch, appended,
                    holdDatabaseOpen, worldDb, liveHandles, yielded, levelDat, world, root_tag,
                    otherWorld >>

NextEntity ==
    \/ SaveEntity
    \/ LoadEntity

SpecEntity == InitEntity /\ [][NextEntity]_vars

\* Arrays of cells along an inner axis of even length: every pair of values
\* of 0 .. 15, and longer arrays over a sample of them.
NibbleSample == {0, 1, 7, 8, 15}
NibbleArrays ==
    [1 .. 2 -> 0 .. 15] \cup UNION {[1 .. 2 * k -> NibbleSample] : k \in 0 .. MaxPacked}

\* An unpacked array of a cached chunk about to be packed and unpacked again.
NibblesProbe(arr) ==
    [kind |-> "nibbles", stage |-> "arg", arg |-> arr, array |-> arr, packed |-> << >>,
     out |-> << >>]

InitNibbles ==
    /\ db = InitStore([c \in Coords |-> "ok"])
    /\ InitIdle
    /\ InitOpened
    /\ InitHandle(TRUE)
    /\ probe \in {NibblesProbe(arr) : arr \in NibbleArrays}
    /\ otherWorld = NoOtherWorld

\* packData(dataArray).tostring() in savedData.
PackNibbles ==
    /\ probe.kind = "nibbles"
    /\ probe.stage = "arg"
    /\ probe' = [probe EXCEPT !.stage = "packed", !.packed = PackData(probe.array),
                              !.array = PackDataLeaves(probe.array)]
    /\ ret' = Ret("packData", << >>, "ok", Len(probe'.packed))
    /\ UNCHANGED << db, loadedChunks, allChunks, classList, nbt, scopes, gen, hostBatch, appended,
                    holdDatabaseOpen, worldDb, liveHandles, yielded, levelDat, world, root_tag,
                    otherWorld >>

\* unpackChunkData on the packed bytes.
UnpackNibbles ==
    /\ probe.kind = "nibbles"
    /\ probe.stage = "packed"
    /\ probe' = [probe EXCEPT !.stage = "unpacked", !.out = UnpackData(probe.packed)]
    /\ ret' = Ret("unpackChunkData", << >>, "ok", Len(probe'.out))
    /\ UNCHANGED << db, loadedChunks, allChunks, classList, nbt, scopes, gen, hostBatch, appended,
                    holdDatabaseOpen, worldDb, liveHandles, yielded, levelDat, world, root_tag,
                    otherWorld >>

NextNibbles ==
    \/ PackNibbles
    \/ UnpackNibbles

SpecNibbles == InitNibbles /\ [][NextNibbles]_vars

\* The encoder called on cached chunks, dirty and clean.
NextEncode ==
    \/ \E c \in Coords : GetChunk(c)
    \/ \E c \in Coords : Edit(c)
    \/ \E c \in Coords : AppendEntity(c)
    \/ \E c \in Coords : SaveChunk(c)
    \/ Unload

SpecEncode == InitWellFormed /\ [][NextEncode]_vars

\* Two worlds of one process, on two directories.
NextWorlds ==
    \/ OpenOther
    \/ \E c \in Coords : GetChunk(c)
    \/ \E c \in Coords : DeleteChunk(c)
    \/ Unload
    \/ \E c \in Coords : GetChunkOther(c)
    \/ UnloadOther

SpecWorlds == InitWellFormed /\ [][NextWorlds]_vars

\* Deletes, of one chunk and of a box, between runs of saveInPlaceGen, each
\* run driven to its end before the host does anything else.
NextDeleteSave ==
    \/ NextSeq
    \/ ~gen.active /\ \E box \in Boxes : DeleteChunksInBox(box)

SpecDeleteSave == InitWellFormed /\ [][NextDeleteSave]_vars

\* ================================================================ claims

\* getChunk(c) would return a chunk: it is cached, or loadChunk succeeds.
Fetchable(c) == c \in DOMAIN loadedChunks \/ LoadChunk(db, c).status = "ok"

HasTerrain(store, c) == Key(c, TagTerrain) \in DOMAIN store

\* C1 (as claimed): in every state reached from a store whose terrain records
\* all have the right length, every coordinate the allChunks property returns
\* can be fetched with getChunk.
C1_AllChunksFetchable ==
    LET list == AllChunksOf(allChunks, db).v
    IN  \A i \in 1 .. Len(list) : Fetchable(list[i])

\* C2 (as claimed): a deleteChunk(cx, cz) of a chunk that containsChunk reports
\* present, loaded or not, with a batch or without, leaves (cx, cz) out of the
\* cache and out of the allChunks list; and the assertion of deleteChunksInBox
\* never fails.
C2_DeleteForgetsChunk ==
    [][ /\ \A c \in Coords :
              (ret'.op = "deleteChunk" /\ ret'.c = c /\ ContainsChunk(allChunks, db, c))
                  => (c \notin DOMAIN loadedChunks' /\ ~ContainsChunk(allChunks', db', c))
        /\ ret'.result # "AssertionError" ]_vars

\* C7: getChunk of a coordinate that is not cached and has no terrain key raises
\* ChunkNotPresent, whatever other keys the coordinate has, and leaves the cache
\* and the allChunks memo as they were.
C7_AbsentTerrainNotPresent ==
    [][ \A c \in Coords :
            (ret'.op = "getChunk" /\ ret'.c = c
                /\ c \notin DOMAIN loadedChunks /\ ~HasTerrain(db, c))
                => (ret'.result = "ChunkNotPresent"
                    /\ loadedChunks' = loadedChunks /\ allChunks' = allChunks) ]_vars

\* C7's case: getChunk has just raised ChunkNotPresent for a coordinate that
\* still has its tile-entity and entity keys.
C7_Witness ==
    /\ ret.op = "getChunk" /\ ret.result = "ChunkNotPresent"
    /\ Key(ret.c, TagEntities) \in DOMAIN db
    /\ Key(ret.c, TagTileEntities) \in DOMAIN db

\* C8: getChunk of a coordinate whose terrain record is not TerrainLen bytes
\* long raises ChunkMalformed carrying the record's length, and the cache is
\* as it was.
C8_MalformedLength ==
    [][ \A c \in Coords :
            (ret'.op = "getChunk" /\ ret'.c = c
                /\ HasTerrain(db, c) /\ Len(db[Key(c, TagTerrain)]) # TerrainLen)
                => (ret'.result = "ChunkMalformed"
                    /\ ret'.n = Len(db[Key(c, TagTerrain)])
                    /\ loadedChunks' = loadedChunks) ]_vars

\* C8's case: getChunk has just raised ChunkMalformed for a record one byte
\* longer than a terrain record, and cached nothing.
C8_Witness ==
    /\ ret.op = "getChunk" /\ ret.result = "ChunkMalformed"
    /\ ret.n = TerrainLen + 1
    /\ ret.c \notin DOMAIN loadedChunks

InBox(c, box) ==
    /\ box.mincx <= c[1] /\ c[1] < box.maxcx
    /\ box.mincz <= c[2] /\ c[2] < box.maxcz

Records(store, c) ==
    << DictGet(store, Key(c, TagTerrain)), DictGet(store, Key(c, TagTileEntities)),
       DictGet(store, Key(c, TagEntities)) >>

\* C9 (as claimed): deleteChunksInBox(box) deletes the terrain record of every
\* chunk of the half-open rectangle that has one, loaded or not, and leaves the
\* records, the cache entry and the allChunks entry of every other chunk as
\* they were.
C9_BoxDeletesExactly ==
    [][ \A box \in Boxes :
            DeleteChunksInBox(box) =>
                \A c \in Coords :
                    IF InBox(c, box)
                    THEN ~HasTerrain(db', c)
                    ELSE /\ Records(db', c) = Records(db, c)
                         /\ DictGet(loadedChunks', c) = DictGet(loadedChunks, c)
                         /\ ContainsChunk(allChunks', db', c) = ContainsChunk(allChunks, db, c) ]_vars

\* C3 (as claimed): when the body of a littleEndianNBT scope raises, the nbt
\* settings after the scope are those in effect before it was entered; for the
\* host's own scopes, and for the scope savedData opens.
C3_RaiseRestoresEndianness ==
    [][ /\ (ret'.op = "exitScope" /\ ret'.result = "raised")
              => nbt' = scopes[Len(scopes)]
        /\ (ret'.op = "save" /\ ret'.result \in {"KeyError", "struct.error"})
              => nbt' = nbt ]_vars

\* C4 (as claimed): while a scope of the host stays open, the settings stay
\* little-endian: the exit of an inner scope, of the host's or of an operation
\* called in the body, does not end the outer scope's setting.
C4_NestedScopeKeepsLittle ==
    [][ (scopes # << >> /\ scopes' # << >> /\ Len(scopes') <= Len(scopes)
             /\ nbt = LittleEndianEnter(nbt))
            => nbt' = LittleEndianEnter(nbt) ]_vars

BatchKeys(batch) == {batch[i].key : i \in 1 .. Len(batch)}

\* The arrays getChunk would decode from the store's record of c.
Decoded(store, c) == Arrays(ChunkInit(ReadChunk(store, c).data))

\* C5: a run of saveInPlaceGen to its end, not interleaved with other
\* operations, leaves every cached chunk with dirty = FALSE; the record the
\* store then holds for a chunk the run buffered decodes to that chunk's
\* arrays, the records of the other cached chunks are as before; and a next()
\* buffers the chunk it visits exactly when that chunk was dirty.
C5_SaveRoundTrip ==
    [][ /\ (ret'.op = "save" /\ ret'.result = "done") =>
              \A c \in DOMAIN loadedChunks' :
                  /\ ~loadedChunks'[c].dirty
                  /\ IF Key(c, TagTerrain) \in BatchKeys(gen.batch)
                     THEN /\ ReadChunk(db', c).status = "ok"
                          /\ Decoded(db', c) = Arrays(loadedChunks'[c])
                     ELSE Records(db', c) = Records(db, c)
        /\ \A c \in Coords :
              (ret'.op = "save" /\ ret'.result = "yield" /\ ret'.c = c) =>
                  ((Key(c, TagTerrain) \in BatchKeys(gen'.batch) \ BatchKeys(gen.batch))
                      <=> loadedChunks[c].dirty) ]_vars

\* C5's case: a run has just ended; a cached chunk holds an edit, the store's
\* record of it holds the edit and all-255 DirtyColumns, and another cached
\* chunk, never dirty, has its record as loaded.
C5_Witness ==
    /\ ret.op = "save" /\ ret.result = "done"
    /\ \E c \in DOMAIN loadedChunks :
          /\ loadedChunks[c].Blocks[1] = 200
          /\ HasTerrain(db, c)
          /\ db[Key(c, TagTerrain)][1] = 200
          /\ Slice(db[Key(c, TagTerrain)], OffDirty, DirtyLen) = AllDirty(loadedChunks[c].DirtyColumns)
    /\ \E c \in DOMAIN loadedChunks :
          /\ loadedChunks[c].Blocks[1] # 200
          /\ HasTerrain(db, c)
          /\ db[Key(c, TagTerrain)] = InitTerrain(c)

\* What the host edits of a chunk: everything but DirtyColumns and dirty.
Edits(chunk, cls) ==
    << chunk.Blocks, chunk.Data, chunk.SkyLight, chunk.BlockLight, chunk.GrassColors,
       EntitiesOf(chunk, cls), TileEntitiesOf(chunk, cls) >>

\* C6: no next() of saveInPlaceGen before the last writes to the store, and
\* dropping the generator writes nothing; a next() that buffers a dirty chunk
\* leaves it with dirty = FALSE and its edits in the cache; dropping the
\* generator leaves the cache as it is.
C6_AbandonedSaveWritesNothing ==
    [][ /\ (ret'.op = "abandon" \/ (ret'.op = "save" /\ ret'.result # "done"))
              => db' = db
        /\ \A c \in Coords :
              (ret'.op = "save" /\ ret'.result = "yield" /\ ret'.c = c
                  /\ loadedChunks[c].dirty)
                  => /\ ~loadedChunks'[c].dirty
                     /\ Edits(loadedChunks'[c], classList') = Edits(loadedChunks[c], classList)
        /\ ret'.op = "abandon" => loadedChunks' = loadedChunks ]_vars

\* C6's case: a generator has just been dropped, and a cached chunk with
\* dirty = FALSE holds an edit that the store's record of it does not.
C6_Witness ==
    /\ ret.op = "abandon"
    /\ \E c \in DOMAIN loadedChunks :
          /\ ~loadedChunks[c].dirty
          /\ loadedChunks[c].Blocks[1] = 200
          /\ ReadChunk(db, c).status = "ok"
          /\ Decoded(db, c) # Arrays(loadedChunks[c])
          /\ db[Key(c, TagTerrain)] = InitTerrain(c)

\* C10 (as claimed): when savedData raises, the chunk (its DirtyColumns, the
\* "id" of each of its entities) is as it was before the call.
C10_FailedEncodeLeavesChunk ==
    [][ \A c \in Coords :
            (ret'.op = "save" /\ ret'.c = c /\ ret'.result \in {"KeyError", "struct.error"})
                => (loadedChunks'[c] = loadedChunks[c] /\ classList' = classList) ]_vars

C12_FreshHandleReleased ==
    [][ ~holdDatabaseOpen =>
            /\ (yielded' # "none" => yielded' = "fresh")
            /\ liveHandles' = 0 ]_vars

\* C13: unload() and close() do not fail and leave the cache empty and the
\* memo None; called right after an unload() or close(), they change nothing.
C13_UnloadIdempotent ==
    [][ ret'.op \in {"unload", "close"} =>
            /\ ret'.result = "ok"
            /\ loadedChunks' = EmptyDict /\ allChunks' = None
            /\ ret.op \in {"unload", "close"} =>
                  UNCHANGED << db, loadedChunks, allChunks, classList, nbt, scopes, gen,
                               hostBatch, appended, worldDb, liveHandles >> ]_vars

\* C13's case: close() has just returned for the second time in a row, the
\* handle released by the first call.
C13_Witness ==
    /\ ret.op = "close" /\ ret.n = 1 /\ ret.result = "ok"
    /\ holdDatabaseOpen /\ ~worldDb /\ liveHandles = 0
    /\ loadedChunks = EmptyDict /\ ~allChunks.some

\* The declared payload length of level.dat is not the actual one (the file
\* has its eight header bytes and a version the engine accepts).
LengthMismatch(dat) ==
    /\ Len(dat.magic) = 4 /\ UnpackI(dat.magic) >= 3
    /\ Len(dat.length) = 4 /\ UnpackI(dat.length) # dat.payload

\* C14 (as claimed): opening a directory whose level.dat declares a payload
\* length that is not the actual one fails: no world results.
C14_LengthMismatchFails ==
    [][ (OpenWorld(FALSE) /\ LengthMismatch(levelDat))
            => (ret'.result # "ok" /\ world' = "none") ]_vars

\* C15: opening a directory whose level.dat has a version below 3 raises
\* InvalidPocketLevelDBWorldException out of the constructor: no world, no
\* root_tag.
C15_OldVersionAborts ==
    [][ (OpenWorld(FALSE) /\ Len(levelDat.magic) = 4 /\ UnpackI(levelDat.magic) < 3)
            => /\ ret'.result = "InvalidPocketLevelDBWorldException"
               /\ world' = "none" /\ root_tag' = None ]_vars

\* C15's case: the open of a version 2 level.dat has just been aborted.
C15_Witness ==
    /\ ret.op = "open" /\ ret.result = "InvalidPocketLevelDBWorldException"
    /\ UnpackI(levelDat.magic) = 2
    /\ world = "none" /\ ~root_tag.some

\* C16: for any sequence S of compounds (two or more, and payloads holding
\* four zero bytes before a byte 0A, included), loadNBTCompoundList on the
\* compounds' little-endian bytes one after the other returns exactly S, in
\* order.
C16_CompoundListRoundTrip ==
    (probe.kind = "compounds" /\ probe.stage = "loaded")
        => (~probe.out.raised /\ probe.out.compounds = probe.arg)

\* The emitted bytes of an entity end in the tag "id", a TAG_Int of value n,
\* and the End byte.
CarriesId(data, n) ==
    LET tail == << TypeInt, Len(IdName), 0 >> \o IdName \o PackI(n) \o << 0 >>
    IN  /\ Len(data) >= Len(tail)
        /\ SubSeq(data, Len(data) - Len(tail) + 1, Len(data)) = tail

\* C17: for an entity whose string id is in the Entity Id Table, after
\* savedData has emitted it its "id" in memory is the string it was, the
\* emitted bytes carry the table's integer for it, and loading those bytes
\* gives an entity with the original string id.
C17_EntityIdRoundTrip ==
    /\ (probe.kind = "entity" /\ probe.stage # "arg") =>
          /\ probe.ent.id = probe.arg.id
          /\ CarriesId(probe.data, entityList[probe.arg.id.s])
    /\ (probe.kind = "entity" /\ probe.stage = "loaded") =>
          /\ probe.out.raised = ""
          /\ Len(probe.out.entities) = 1
          /\ probe.out.entities[1].id = probe.arg.id

\* C18: a chunk getChunk loads from a coordinate whose tile-entity and entity
\* keys are absent has empty Entities and TileEntities, whatever was done
\* before to other chunks.
C18_AbsentKeysEmptyLists ==
    [][ \A c \in Coords :
            ( /\ c \notin DOMAIN loadedChunks
              /\ ret'.op = "getChunk" /\ ret'.c = c /\ ret'.result = "ok"
              /\ Key(c, TagTileEntities) \notin DOMAIN db
              /\ Key(c, TagEntities) \notin DOMAIN db )
            => /\ EntitiesOf(loadedChunks'[c], classList') = << >>
               /\ TileEntitiesOf(loadedChunks'[c], classList') = << >> ]_vars

\* C19: for an array of even length with values in 0 .. 15, packData puts
\* the cell at each even index (0-based) in the low nibble and the next cell
\* in the high nibble of one byte and leaves the array in memory as it was,
\* and unpacking the packed bytes gives the array back.
C19_NibbleRoundTrip ==
    /\ (probe.kind = "nibbles" /\ probe.stage # "arg") =>
          /\ probe.array = probe.arg
          /\ Len(probe.packed) * 2 = Len(probe.arg)
          /\ \A k \in 1 .. Len(probe.packed) :
                probe.packed[k] = probe.arg[2 * k - 1] + 16 * probe.arg[2 * k]
    /\ (probe.kind = "nibbles" /\ probe.stage = "unpacked") => probe.out = probe.arg

\* C19's case: an array with 15 in an even cell and 7 in the odd cell after
\* it, and different cells further on, has been packed and unpacked.
C19_Witness ==
    /\ probe.kind = "nibbles"
    /\ probe.stage = "unpacked"
    /\ Len(probe.arg) = 2 * MaxPacked
    /\ probe.arg[1] = 15 /\ probe.arg[2] = 7
    /\ probe.arg[3] = 8 /\ probe.arg[4] = 1
    /\ probe.packed[1] = 127
    /\ probe.out[2] = 7

\* C20, as claimed: a next() of saveInPlaceGen that yields has processed a
\* chunk that was dirty; a clean cached chunk produces no yield.
C20_YieldPerDirtyChunk ==
    [][ \A c \in Coords :
            (ret'.op = "save" /\ ret'.result = "yield" /\ ret'.c = c)
                => loadedChunks[c].dirty ]_vars

\* C20, amended: a run of saveInPlaceGen to its end yields once per cached
\* chunk, dirty or clean.  Each yield is for a cached chunk the run has not
\* yielded for, buffered on the way exactly when it was dirty, and the run
\* ends when it has yielded for every cached chunk.
C20_YieldPerCachedChunk ==
    [][ /\ \A c \in Coords :
              (ret'.op = "save" /\ ret'.result = "yield" /\ ret'.c = c) =>
                  /\ c \in DOMAIN loadedChunks
                  /\ c \notin GenNow.visited
                  /\ gen'.visited = GenNow.visited \cup {c}
                  /\ ret'.n = (IF loadedChunks[c].dirty THEN 1 ELSE 0)
        /\ (ret'.op = "save" /\ ret'.result = "done") =>
              /\ GenNow.visited = DOMAIN loadedChunks
              /\ Cardinality(GenNow.visited) = GenNow.size ]_vars

\* C20's case: a run over two cached chunks, one of them clean, has yielded
\* for both and ended.
C20_Witness ==
    /\ ret.op = "save" /\ ret.result = "done"
    /\ Cardinality(DOMAIN loadedChunks) = 2
    /\ \E c \in DOMAIN loadedChunks :
          /\ loadedChunks[c].Blocks[1] = 200
          /\ db[Key(c, TagTerrain)][1] = 200
    /\ \E c \in DOMAIN loadedChunks :
          /\ loadedChunks[c].Blocks[1] # 200
          /\ loadedChunks[c].DirtyColumns # AllDirty(loadedChunks[c].DirtyColumns)

\* A next() of saveInPlaceGen out of which savedData's exception came.
SaveFailed(r) == r.op = "save" /\ r.result \in {"KeyError", "struct.error"}

\* The chunks whose terrain key a batch puts.
BatchChunks(batch) == {c \in Coords : Key(c, TagTerrain) \in BatchKeys(batch)}

\* C21: when savedData raises part-way through a run of saveInPlaceGen, the
\* chunks the run had processed have dirty = FALSE, the failing chunk is
\* still dirty, the chunks not reached keep their flag, and the store is as
\* it was; a run buffers a chunk exactly when it is dirty, so the next run
\* writes only the chunks still dirty.
C21_FailedSaveKeepsFlags ==
    [][ /\ SaveFailed(ret') =>
              /\ \A c \in GenNow.visited :
                    c \in DOMAIN loadedChunks' /\ ~loadedChunks'[c].dirty
              /\ ret'.c \in DOMAIN loadedChunks' /\ loadedChunks'[ret'.c].dirty
              /\ \A c \in (DOMAIN loadedChunks) \ (GenNow.visited \cup {ret'.c}) :
                    loadedChunks'[c].dirty = loadedChunks[c].dirty
              /\ db' = db
              /\ ~gen'.active
        /\ (ret'.op = "save" /\ ret'.result = "yield") =>
              BatchChunks(gen'.batch) \ BatchChunks(GenNow.batch)
                  = {c \in {ret'.c} : loadedChunks[c].dirty}
        /\ (ret'.op = "save" /\ ret'.result = "done") => db' = Write(db, GenNow.batch) ]_vars

\* C21's case: a run has just failed at a dirty chunk after it had buffered
\* an edited one: that one is clean in memory and the store still holds its
\* record as loaded.
C21_Witness ==
    /\ SaveFailed(ret)
    /\ loadedChunks[ret.c].dirty
    /\ \E c \in (DOMAIN loadedChunks) \ {ret.c} :
          /\ loadedChunks[c].Blocks[1] = 200
          /\ ~loadedChunks[c].dirty
          /\ db[Key(c, TagTerrain)] = InitTerrain(c)

\* C22 (as claimed): deleteChunksInBox(box) commits exactly once, after the
\* loop has buffered every delete: the store changes by the whole batch at
\* that commit and in no other way.
C22_BoxCommitsOnce ==
    [][ \A box \in Boxes :
            DeleteChunksInBox(box) =>
                /\ BoxCommits(BoxRun(box)) = 1
                /\ db' = Write(db, BoxRun(box).batch) ]_vars

\* C23: deleteChunk(cx, cz) takes the terrain key of (cx, cz) out of the
\* store and nothing else: the tile-entity and entity keys of (cx, cz) and
\* every key of every other chunk stay, with their values.  Given a batch, it
\* buffers the delete of that one key and leaves the store as it is.
C23_DeleteTerrainKeyOnly ==
    [][ \A c \in Coords :
            (ret'.op = "deleteChunk" /\ ret'.c = c) =>
                IF ret'.n = 0
                THEN /\ DOMAIN db' = (DOMAIN db) \ {Key(c, TagTerrain)}
                     /\ \A k \in DOMAIN db' : db'[k] = db[k]
                     /\ hostBatch' = hostBatch
                ELSE /\ db' = db
                     /\ hostBatch' = Append(hostBatch, Delete(Key(c, TagTerrain))) ]_vars

\* C23's case: deleteChunk has just deleted the terrain key of a chunk that
\* had all three keys; its other two keys and another chunk's terrain key are
\* in the store.
C23_Witness ==
    /\ ret.op = "deleteChunk" /\ ret.n = 0 /\ ret.c = FirstCoord
    /\ ~HasTerrain(db, FirstCoord)
    /\ Key(FirstCoord, TagTileEntities) \in DOMAIN db
    /\ Key(FirstCoord, TagEntities) \in DOMAIN db
    /\ \E c \in Coords \ {FirstCoord} : Key(c, TagTerrain) \in DOMAIN db

\* The DirtyColumns bytes of the terrain record the store holds for c.
StoredDirtyColumns(store, c) == Slice(store[Key(c, TagTerrain)], OffDirty, DirtyLen)

\* C24: encoding a chunk whose dirty flag is set leaves its DirtyColumns all
\* 255 in memory and emits them so; encoding a chunk whose dirty flag is not
\* set emits the DirtyColumns the chunk holds, unchanged.
C24_DirtyColumnsOnEncode ==
    [][ \A c \in Coords :
            (ret'.op = "saveChunk" /\ ret'.c = c) =>
                /\ loadedChunks'[c].DirtyColumns =
                      (IF loadedChunks[c].dirty THEN AllDirty(loadedChunks[c].DirtyColumns)
                       ELSE loadedChunks[c].DirtyColumns)
                /\ ret'.result = "ok" =>
                      /\ Len(db'[Key(c, TagTerrain)]) = TerrainLen
                      /\ StoredDirtyColumns(db', c) = loadedChunks'[c].DirtyColumns ]_vars

\* C24's case: a clean chunk has just been encoded, its DirtyColumns in the
\* store as loaded and not 255, after a dirty chunk had been encoded, its
\* DirtyColumns in the store all 255.
C24_Witness ==
    /\ ret.op = "saveChunk" /\ ret.result = "ok"
    /\ ~loadedChunks[ret.c].dirty
    /\ StoredDirtyColumns(db, ret.c) = Slice(InitTerrain(ret.c), OffDirty, DirtyLen)
    /\ StoredDirtyColumns(db, ret.c) # AllDirty(loadedChunks[ret.c].DirtyColumns)
    /\ \E c \in DOMAIN loadedChunks :
          /\ loadedChunks[c].dirty
          /\ loadedChunks[c].Blocks[1] = 200
          /\ db[Key(c, TagTerrain)][1] = 200
          /\ StoredDirtyColumns(db, c) = AllDirty(loadedChunks[c].DirtyColumns)

\* C25 (as claimed): the caches of two worlds are independent: getChunk on
\* the second world returns a chunk decoded from the second world's store,
\* whatever the first world has loaded, and getChunk on the first world one
\* decoded from the first world's.
C25_CachesIndependent ==
    [][ \A c \in Coords :
            /\ (otherWorld' # otherWorld /\ otherWorld'.ret = Ret("getChunk", c, "ok", 0))
                  => otherWorld'.chunk = Some(ChunkInit(ReadChunk(otherWorld.db, c).data))
            /\ (ret' # ret /\ ret'.op = "getChunk" /\ ret'.c = c /\ ret'.result = "ok")
                  => loadedChunks'[c] = ChunkInit(ReadChunk(db, c).data) ]_vars

\* C26 (as claimed): a next() that resumes a suspended saveInPlaceGen does
\* not fail for what the host did to the cache in between (getChunk of a
\* chunk not cached, unload): the run goes on to its end and writes its
\* batch.
C26_ResumedSaveCompletes ==
    [][ (gen.active /\ SaveNext) => ret'.result # "RuntimeError" ]_vars

\* C27 (as claimed): a deleted chunk is not brought back by a later save.
\* deleteChunk without a batch on a cached dirty chunk, and a
\* deleteChunksInBox that returns and covers it, leave the store without its
\* terrain key and the cache without the chunk; and no next() of a run of
\* saveInPlaceGen started afterwards gives a terrain key to a coordinate
\* that has none.
C27_DeletedStaysDeleted ==
    [][ \A c \in Coords :
            /\ ( /\ c \in DOMAIN loadedChunks /\ loadedChunks[c].dirty
                 /\ \/ ret'.op = "deleteChunk" /\ ret'.c = c /\ ret'.n = 0
                    \/ \E box \in Boxes :
                          InBox(c, box) /\ DeleteChunksInBox(box) /\ ret'.result = "ok" )
                  => (~HasTerrain(db', c) /\ c \notin DOMAIN loadedChunks')
            /\ (SaveNext /\ ~HasTerrain(db, c))
                  => (~HasTerrain(db', c) /\ c \notin DOMAIN loadedChunks') ]_vars

====
